---- MODULE Spec2Model ----
(***************************************************************************)
(* Clinical-record signing (firmarExpediente), the Firma model             *)
(* (verificarFirma, revocar), the Expediente model (content hash) and the  *)
(* AuditLog model (registrar), as coded under src/backend and src/unnamed. *)
(*                                                                         *)
(* Documents are records.  A schema path that holds no value carries the   *)
(* sentinel of its type: Undef for strings, NoId for ObjectIds, NoDate for *)
(* Dates.  Nested certificado.* / firma.* / metadata.* paths are written   *)
(* flat (numeroSerie, inicio, fin, certificadoPublico, algoritmo, ...).    *)
(* Dates are integers on the clock `now`.                                  *)
(***************************************************************************)
EXTENDS Integers, Sequences, FiniteSets, TLC

\* ---------------------------------------------------------------- bounds
MaxNow == 3
MaxFirmas == 2
NumReq == 2
MaxAccesos == 1
MaxDocs == 2
MaxBytes == 3

\* ------------------------------------------------------------- sentinels
Undef == "undefined"
NoId == 0
NoDate == 0 - 1

Has(d, k) == k \in DOMAIN d
GetS(d, k) == IF Has(d, k) THEN d[k] ELSE Undef
GetId(d, k) == IF Has(d, k) THEN d[k] ELSE NoId
GetDate(d, k) == IF Has(d, k) THEN d[k] ELSE NoDate

Fechas == 0..MaxNow
ExpIds == {1}
Procs == 1..NumReq
Roles == {"admin", "doctor", "paciente"}
Users == {[id |-> 1, role |-> "doctor"], [id |-> 2, role |-> "doctor"],
          [id |-> 3, role |-> "paciente"]}

VARIABLES
    expedientes,  \* Expediente collection: ExpIds -> document or NoExp
    firmas,       \* Firma collection, in insertion order (_id = position)
    auditLog,     \* AuditLog capped collection, oldest first
    reqs,         \* in-flight firmarExpediente requests, one per connection
    now,          \* the clock read by new Date() / Date.now
    last,         \* outcome of the most recent call on a model or audit route
    usuarios      \* the User collection: the role each user holds now

vars == <<expedientes, firmas, auditLog, reqs, now, last, usuarios>>

\* ============================================================== AuditLog
AuditRoles == {"admin", "doctor", "paciente"}
AuditAcciones == {"login", "logout", "reset_password", "change_password",
                  "crear", "leer", "actualizar", "eliminar",
                  "firmar_documento", "generar_pdf", "subir_archivo",
                  "descargar_archivo", "otorgar_acceso", "revocar_acceso"}
AuditEntidades == {"Usuario", "Paciente", "Expediente", "Documento"}
AuditMax == 10000
AuditSize == 5242880
LimitePorDefecto == 100

\* the two ceilings of the capped collection as the model runs them: max
\* documents and size, scaled down to MaxDocs documents and MaxBytes units
TechoDocs == IF MaxDocs < AuditMax THEN MaxDocs ELSE AuditMax
TechoBytes == IF MaxBytes < AuditSize THEN MaxBytes ELSE AuditSize

\* new this({...}) in registrar: the document is built from datos.usuario,
\* datos.rolUsuario, datos.accion, datos.entidad and the TOP-LEVEL datos.ip,
\* datos.exitoso, datos.mensaje (datos.seguridad / datos.resultado are not read).
AuditNew(datos, t) ==
    [usuario    |-> GetId(datos, "usuario"),
     rolUsuario |-> GetS(datos, "rolUsuario"),
     accion     |-> GetS(datos, "accion"),
     entTipo    |-> IF Has(datos, "entidad") THEN datos.entidad.tipo ELSE Undef,
     entId      |-> IF Has(datos, "entidad") THEN datos.entidad.id ELSE NoId,
     ip         |-> GetS(datos, "ip"),
     exitoso    |-> IF Has(datos, "exitoso") THEN datos.exitoso ELSE FALSE,
     tieneExito |-> Has(datos, "exitoso"),
     mensaje    |-> GetS(datos, "mensaje"),
     timestamp  |-> t]

\* auditLogSchema validators run by log.save(): required paths and enums.
AuditValidate(doc) ==
    /\ doc.usuario # NoId
    /\ doc.rolUsuario \in AuditRoles
    /\ doc.accion \in AuditAcciones
    /\ doc.entTipo \in AuditEntidades
    /\ doc.entId # NoId
    /\ doc.ip # Undef
    /\ doc.tieneExito

\* stored size of a document, in units: resultado.mensaje is an optional
\* string, a document that carries one is the larger
Peso(doc) ==
    IF doc.mensaje = Undef THEN 1 ELSE 2

Bytes(log) ==
    LET S[k \in 0..Len(log)] == IF k = 0 THEN 0 ELSE S[k - 1] + Peso(log[k])
    IN  S[Len(log)]

\* the collection is within both ceilings of its capped option
Cabe(log) ==
    Len(log) <= TechoDocs /\ Bytes(log) <= TechoBytes

CappedInsertSinLimite(log, doc) ==
    Append(log, doc)

\* insert into the capped collection: the document goes last and the oldest
\* documents are removed, one after the other, until the collection is within
\* max documents and within size; a document larger than size is refused.
CappedInsert(log, doc) ==
    LET all == Append(log, doc)
        quita == {j \in 0..Len(log) : Cabe(SubSeq(all, j + 1, Len(all)))}
    IN  IF quita = {} THEN log
        ELSE LET j == CHOOSE m \in quita : \A n \in quita : m <= n
             IN  SubSeq(all, j + 1, Len(all))

ErrInmutable == "Los registros de auditoría no pueden ser modificados"

AuditPreSaveLax(isNew) ==
    Undef

\* auditLogSchema.pre('save'): the error handed to next(), or none
AuditPreSave(isNew) ==
    IF ~isNew THEN ErrInmutable ELSE Undef

\* log.save() of a new document goes through: validators and pre('save')
AuditAcepta(doc) ==
    AuditValidate(doc) /\ AuditPreSave(TRUE) = Undef

\* AuditLog.registrar: try { new; save } catch { return null } -- a failed
\* save is swallowed and the collection is left as it was.
registrar(log, datos, t) ==
    LET doc == AuditNew(datos, t)
    IN  IF AuditAcepta(doc) THEN CappedInsert(log, doc) ELSE log

\* the query AuditLog.buscar builds from filtros: a filter is applied when its
\* value is truthy (exitoso: when it is defined)
Coincide(doc, filtros) ==
    /\ (Has(filtros, "usuario") /\ filtros.usuario # NoId)
          => doc.usuario = filtros.usuario
    /\ (Has(filtros, "accion") /\ filtros.accion # Undef)
          => doc.accion = filtros.accion
    /\ (Has(filtros, "entidadTipo") /\ filtros.entidadTipo # Undef)
          => doc.entTipo = filtros.entidadTipo
    /\ (Has(filtros, "entidadId") /\ filtros.entidadId # NoId)
          => doc.entId = filtros.entidadId
    /\ Has(filtros, "exitoso") => doc.exitoso = filtros.exitoso
    /\ (Has(filtros, "fechaInicio") /\ filtros.fechaInicio # NoDate)
          => doc.timestamp >= filtros.fechaInicio
    /\ (Has(filtros, "fechaFin") /\ filtros.fechaFin # NoDate)
          => doc.timestamp <= filtros.fechaFin

\* AuditLog.buscar: find(query).sort({timestamp: -1}).limit(limite || 100)
\* .skip(skip || 0). The answer is a list; the order of documents with equal
\* timestamp is not fixed by the sort, so the operator gives every list the
\* query can answer.
buscar(log, filtros) ==
    LET K      == {k \in 1..Len(log) : Coincide(log[k], filtros)}
        n      == Cardinality(K)
        limite == IF Has(filtros, "limite") /\ filtros.limite # 0
                  THEN filtros.limite ELSE LimitePorDefecto
        skip   == IF Has(filtros, "skip") THEN filtros.skip ELSE 0
        m      == IF n - skip < 0 THEN 0
                  ELSE IF n - skip > limite THEN limite ELSE n - skip
        orden  == {s \in [1..n -> K] :
                     /\ \A a, b \in 1..n : a # b => s[a] # s[b]
                     /\ \A a, b \in 1..n :
                           a < b => log[s[a]].timestamp >= log[s[b]].timestamp}
    IN  {[i \in 1..m |-> log[s[i + skip]]] : s \in orden}

\* registrarAuditoria of expedienteController: the datos it hands to registrar.
registrarAuditoria(log, user, accion, entidadId, exitoso, mensaje, t) ==
    registrar(log,
              [usuario    |-> user.id,
               rolUsuario |-> user.role,
               accion     |-> accion,
               entidad    |-> [tipo |-> "Expediente", id |-> entidadId],
               seguridad  |-> [ip |-> "10.0.0.1"],
               resultado  |-> [exitoso |-> exitoso, mensaje |-> mensaje]],
              t)

\* logError of the error middleware (run by errorHandler for every error
\* passed to next()).
logError(log, err, user, t) ==
    registrar(log,
              [usuario    |-> user.id,
               rolUsuario |-> user.role,
               accion     |-> "error_sistema",
               entidad    |-> [tipo |-> "Sistema", id |-> NoId],
               seguridad  |-> [ip |-> "10.0.0.1"],
               resultado  |-> [exitoso |-> FALSE, mensaje |-> err]],
              t)

\* ================================================================= Firma
Algoritmos == {"RSA-SHA256", "ECDSA-P256-SHA256"}
Propositos == {"creacion_expediente", "actualizacion_expediente", "nota_medica",
               "receta", "consentimiento_informado", "resultado_laboratorio"}
EstadosFirma == {"valida", "revocada", "expirada"}

NoRevocacion == [fecha |-> NoDate, motivo |-> Undef, revocadaPor |-> NoId]

\* new Firma(datos): strict schema -- only the schema's paths are kept
\* (expedienteId, doctorId and other unknown keys are dropped) -- and the
\* defaults algoritmo = 'RSA-SHA256', estado = 'valida' are applied.
FirmaNew(datos) ==
    [expediente         |-> GetId(datos, "expediente"),
     firmante           |-> GetId(datos, "firmante"),
     numeroSerie        |-> GetS(datos, "numeroSerie"),
     inicio             |-> GetDate(datos, "inicio"),
     fin                |-> GetDate(datos, "fin"),
     certificadoPublico |-> GetS(datos, "certificadoPublico"),
     algoritmo          |-> IF Has(datos, "algoritmo") THEN datos.algoritmo
                            ELSE "RSA-SHA256",
     cadenaOriginal     |-> GetS(datos, "cadenaOriginal"),
     selloDigital       |-> GetS(datos, "selloDigital"),
     hashDocumento      |-> GetS(datos, "hashDocumento"),
     proposito          |-> GetS(datos, "proposito"),
     estado             |-> IF Has(datos, "estado") THEN datos.estado ELSE "valida",
     revocacion         |-> NoRevocacion]

FirmaValidateLax(doc) ==
    TRUE

\* firmaSchema validators run by save(): required paths and enums.
FirmaValidate(doc) ==
    /\ doc.expediente # NoId
    /\ doc.firmante # NoId
    /\ doc.numeroSerie # Undef
    /\ doc.inicio # NoDate
    /\ doc.fin # NoDate
    /\ doc.certificadoPublico # Undef
    /\ doc.algoritmo \in Algoritmos
    /\ doc.cadenaOriginal # Undef
    /\ doc.selloDigital # Undef
    /\ doc.hashDocumento # Undef
    /\ doc.proposito \in Propositos
    /\ doc.estado \in EstadosFirma

\* crypto.createVerify(algoritmo): OpenSSL knows the digest 'RSA-SHA256';
\* any other name makes it throw.
DigestConocido(alg) ==
    alg = "RSA-SHA256"

\* verificacion.verify(certificadoPublico, selloDigital) over cadenaOriginal:
\* true exactly for the sello produced with the certificate's key over that
\* string.
SellosGenuinos == {<<"cadena1", "PEM_A", "sello_A1">>}
CryptoVerify(cadena, pem, sello) ==
    <<cadena, pem, sello>> \in SellosGenuinos

ResExpirado == [valida |-> FALSE, mensaje |-> "El certificado ha expirado",
                detalles |-> NoRevocacion]
ResRevocada(f) == [valida |-> FALSE, mensaje |-> "La firma ha sido revocada",
                   detalles |-> f.revocacion]
ResError == [valida |-> FALSE, mensaje |-> "Error al verificar la firma",
             detalles |-> NoRevocacion]
ResCrypto(ok) == [valida |-> ok,
                  mensaje |-> IF ok THEN "Firma válida" ELSE "Firma inválida",
                  detalles |-> NoRevocacion]

verificarFirmaRevocadaPrimero(f, ahora) ==
    IF f.estado = "revocada" THEN ResRevocada(f)
    ELSE IF ahora < f.inicio \/ ahora > f.fin THEN ResExpirado
    ELSE IF ~DigestConocido(f.algoritmo) THEN ResError
    ELSE ResCrypto(CryptoVerify(f.cadenaOriginal, f.certificadoPublico, f.selloDigital))

verificarFirmaSinRevocacion(f, ahora) ==
    IF ahora < f.inicio \/ ahora > f.fin THEN ResExpirado
    ELSE IF ~DigestConocido(f.algoritmo) THEN ResError
    ELSE ResCrypto(CryptoVerify(f.cadenaOriginal, f.certificadoPublico, f.selloDigital))

verificarFirmaAbierta(f, ahora) ==
    IF ahora < f.inicio \/ ahora > f.fin THEN ResExpirado
    ELSE IF f.estado = "revocada" THEN ResRevocada(f)
    ELSE IF ~DigestConocido(f.algoritmo) THEN ResCrypto(TRUE)
    ELSE ResCrypto(CryptoVerify(f.cadenaOriginal, f.certificadoPublico, f.selloDigital))

\* firmaSchema.methods.verificarFirma
verificarFirma(f, ahora) ==
    IF ahora < f.inicio \/ ahora > f.fin THEN ResExpirado
    ELSE IF f.estado = "revocada" THEN ResRevocada(f)
    ELSE IF ~DigestConocido(f.algoritmo) THEN ResError
    ELSE ResCrypto(CryptoVerify(f.cadenaOriginal, f.certificadoPublico, f.selloDigital))

verificarFirmaPersisteExpirada(f, ahora) ==
    IF ahora > f.fin /\ f.estado = "valida" THEN [f EXCEPT !.estado = "expirada"]
    ELSE f

\* firmaSchema.methods.verificarFirma, the document after the call: the method
\* reads this.certificado, this.estado, this.revocacion and this.firma, assigns
\* to none of them and never calls save().
verificarFirmaThis(f, ahora) ==
    f

revocarYBorraSello(f, usuario, motivo, t) ==
    [f EXCEPT !.estado = "revocada", !.selloDigital = Undef,
              !.revocacion = [fecha |-> t, motivo |-> motivo,
                              revocadaPor |-> usuario.id]]

revocarComoExpirada(f, usuario, motivo, t) ==
    [f EXCEPT !.estado = IF t > f.fin THEN "expirada" ELSE "revocada",
              !.revocacion = [fecha |-> t, motivo |-> motivo,
                              revocadaPor |-> usuario.id]]

\* firmaSchema.methods.revocar, the document it saves: estado and revocacion
\* are assigned unconditionally, whatever the current estado.
revocar(f, usuario, motivo, t) ==
    [f EXCEPT !.estado = "revocada",
              !.revocacion = [fecha |-> t, motivo |-> motivo,
                              revocadaPor |-> usuario.id]]

\* the datos revocar hands to AuditLog.registrar after the save
revocarAuditoria(log, i, f, usuario, motivo, t) ==
    registrar(log,
              [usuario    |-> usuario.id,
               rolUsuario |-> usuario.role,
               accion     |-> "revocar_firma",
               entidad    |-> [tipo |-> "Firma", id |-> i],
               detalles   |-> [expediente |-> f.expediente, motivo |-> motivo],
               resultado  |-> [exitoso |-> TRUE,
                               mensaje |-> "Firma revocada exitosamente"]],
              t)

\* ============================================================ Expediente
Contenidos == {"c1", "c2"}

\* contenido values whose Mixed path datosEspecificos holds { valor: null }
\* and { valor: NaN } (a BSON double); both can be stored
ContenidosMixed == {"cNull", "cNaN"}

\* JSON.stringify(this.contenido): a NaN is written as null
JSONStringify(c) ==
    CASE c = "c1"    -> "{\"motivo\":\"c1\"}"
      [] c = "c2"    -> "{\"motivo\":\"c2\"}"
      [] c = "cNull" -> "{\"datosEspecificos\":{\"valor\":null}}"
      [] c = "cNaN"  -> "{\"datosEspecificos\":{\"valor\":null}}"
      [] OTHER       -> "{}"

\* crypto.createHash('sha256').update(s).digest('hex'): distinct strings have
\* distinct digests (collision-freedom of the primitive).
Sha256Hex(s) ==
    CASE s = "{\"motivo\":\"c1\"}" -> "a1f0"
      [] s = "{\"motivo\":\"c2\"}" -> "7be2"
      [] s = "{\"datosEspecificos\":{\"valor\":null}}" -> "c9d3"
      [] OTHER                     -> "44cb"

NoExp == [existe |-> FALSE, paciente |-> NoId, tipo |-> Undef, contenido |-> Undef,
          hash |-> Undef, estado |-> Undef, firmante |-> NoId, fechaFirma |-> NoDate,
          sello |-> Undef, createdBy |-> NoId, accesos |-> 0]

\* new Expediente(datos): schema paths and the default estado = 'borrador'.
\* firmante / fechaFirma / sello are firmaDigital.firmante, .fechaFirma,
\* .selloDigital.
ExpedienteNew(datos) ==
    [existe     |-> TRUE,
     paciente   |-> GetId(datos, "paciente"),
     tipo       |-> GetS(datos, "tipo"),
     contenido  |-> GetS(datos, "contenido"),
     hash       |-> Undef,
     estado     |-> IF Has(datos, "estado") THEN datos.estado ELSE "borrador",
     firmante   |-> GetId(datos, "firmante"),
     fechaFirma |-> GetDate(datos, "fechaFirma"),
     sello      |-> GetS(datos, "sello"),
     createdBy  |-> GetId(datos, "createdBy"),
     accesos    |-> 0]

\* expedienteSchema validators: required paths (the nested firmaDigital.firmante
\* and firmaDigital.fechaFirma are required paths of the document) and enums.
ExpedienteValidate(doc) ==
    /\ doc.paciente # NoId
    /\ doc.tipo # Undef
    /\ doc.contenido # Undef
    /\ doc.firmante # NoId
    /\ doc.fechaFirma # NoDate
    /\ doc.createdBy # NoId
    /\ doc.estado \in {"borrador", "firmado", "cancelado"}

PreSavePierdeHash(doc, contenidoModificado) ==
    IF contenidoModificado
    THEN [doc EXCEPT !.hash = Sha256Hex(JSONStringify(doc.contenido))]
    ELSE [doc EXCEPT !.hash = Undef]

\* expedienteSchema.pre('save'): the hash is recomputed when contenido is modified
PreSave(doc, contenidoModificado) ==
    IF contenidoModificado
    THEN [doc EXCEPT !.hash = Sha256Hex(JSONStringify(doc.contenido))]
    ELSE doc

\* expedienteSchema.methods.verificarIntegridad
verificarIntegridad(doc) ==
    Sha256Hex(JSONStringify(doc.contenido)) = doc.hash

CreateDatosSinForzar(body, user) ==
    [k \in DOMAIN body \cup {"createdBy"} |->
        IF k = "createdBy" THEN user.id ELSE body[k]]

\* { ...req.body, createdBy: req.user._id, estado: 'borrador' }
CreateDatos(body, user) ==
    [k \in DOMAIN body \cup {"createdBy", "estado"} |->
        IF k = "createdBy" THEN user.id
        ELSE IF k = "estado" THEN "borrador"
        ELSE body[k]]

\* the object firmarExpediente passes to Firma.create
FirmarDatos(id, user, body) ==
    [expedienteId |-> id,
     doctorId     |-> user.id,
     numeroSerie  |-> body.numeroSerie,
     emisor       |-> body.emisor,
     inicio       |-> body.inicio,
     fin          |-> body.fin]


\* ================================================================ inputs
\* request bodies of POST /expedientes
CreateBodies ==
    {[paciente |-> 1, tipo |-> "nota_evolucion", contenido |-> "c1",
      firmante |-> 1, fechaFirma |-> 0],
     [paciente |-> 1, tipo |-> "nota_evolucion", contenido |-> "c2",
      firmante |-> 1, fechaFirma |-> 0, estado |-> "firmado"],
     [paciente |-> 1, tipo |-> "nota_evolucion", contenido |-> "c1"]}

\* request bodies of POST /expedientes with a contenido that holds a null
CuerposMixed ==
    {[paciente |-> 1, tipo |-> "nota_evolucion", contenido |-> "cNull",
      firmante |-> 1, fechaFirma |-> 0]}

\* request bodies of POST /expedientes/:id/firmar (body.certificado.*)
SignBodies ==
    {[numeroSerie |-> "NS1", emisor |-> "SAT", inicio |-> 0, fin |-> MaxNow],
     [numeroSerie |-> "NS2", emisor |-> "SAT", inicio |-> MaxNow, fin |-> MaxNow]}

\* datos handed to Firma.create by a caller that fills the schema's paths
DatosFirma ==
    {[expediente |-> e, firmante |-> 1, numeroSerie |-> "NS1", inicio |-> 1,
      fin |-> 2, certificadoPublico |-> "PEM_A", cadenaOriginal |-> "cadena1",
      selloDigital |-> s, hashDocumento |-> "a1f0", proposito |-> "nota_medica"]
        : e \in ExpIds, s \in {"sello_A1", "sello_X"}}
    \cup {FirmarDatos(e, [id |-> 1, role |-> "doctor"],
                      [numeroSerie |-> "NS1", emisor |-> "SAT", inicio |-> 1, fin |-> 2])
            : e \in ExpIds}

\* datos handed to Firma.create with each algoritmo of the schema's enum and a
\* sello that is, or is not, the signature of cadenaOriginal
DatosVerificar ==
    {[expediente |-> e, firmante |-> 1, numeroSerie |-> "NS1", inicio |-> 1,
      fin |-> 2, certificadoPublico |-> "PEM_A", cadenaOriginal |-> "cadena1",
      algoritmo |-> a, selloDigital |-> s, hashDocumento |-> "a1f0",
      proposito |-> "nota_medica"]
        : e \in ExpIds, a \in Algoritmos, s \in {"sello_A1", "sello_X"}}

\* datos handed to AuditLog.registrar: two in the shape registrar reads (ip,
\* exitoso and mensaje at the top level), with and without a mensaje, and one
\* in the shape the controllers pass (ip under seguridad, exitoso under
\* resultado)
DatosAudit ==
    {[usuario |-> 1, rolUsuario |-> "doctor", accion |-> "crear",
      entidad |-> [tipo |-> "Expediente", id |-> 1], ip |-> "10.0.0.1",
      exitoso |-> TRUE, mensaje |-> "Expediente creado exitosamente"],
     [usuario |-> 1, rolUsuario |-> "doctor", accion |-> "leer",
      entidad |-> [tipo |-> "Expediente", id |-> 1], ip |-> "10.0.0.1",
      exitoso |-> FALSE],
     [usuario |-> 1, rolUsuario |-> "doctor", accion |-> "crear",
      entidad |-> [tipo |-> "Expediente", id |-> 1],
      seguridad |-> [ip |-> "10.0.0.1"],
      resultado |-> [exitoso |-> TRUE, mensaje |-> "Expediente creado exitosamente"]]}

\* req.query of the audit routes; exitoso arrives as a string, page and limit
\* as digits
Consultas ==
    {[k \in {} |-> 0],
     [rolUsuario |-> "doctor", page |-> 0, limit |-> 0],
     [accion |-> "login", exitoso |-> "false", fechaInicio |-> 1, fechaFin |-> 2],
     [usuario |-> 1, entidadTipo |-> "Usuario", entidadId |-> 1, exitoso |-> "true",
      limit |-> 1],
     [exitoso |-> "1"],
     [page |-> 2, limit |-> 1]}
ConsultasExport ==
    {[k \in {} |-> 0],
     [accion |-> "login", exitoso |-> "false", fechaInicio |-> 1, fechaFin |-> 2]}
ConsultasRol ==
    {[rolUsuario |-> r] : r \in {"doctor", "admin"}}

\* what the audited callers would hand registrar for user u: the acciones and
\* outcomes stored for the queries to find
AccionesConsulta ==
    {[accion |-> "login", exitoso |-> FALSE], [accion |-> "login", exitoso |-> TRUE],
     [accion |-> "crear", exitoso |-> TRUE]}

\* the (usuario, motivo) arguments of revocar
Revocaciones ==
    {[usuario |-> [id |-> 1, role |-> "doctor"], motivo |-> "error de captura"],
     [usuario |-> [id |-> 4, role |-> "admin"], motivo |-> "certificado comprometido"]}
Motivos == {r.motivo : r \in Revocaciones}

NoRes == [valida |-> FALSE, mensaje |-> Undef, detalles |-> NoRevocacion]
NoLast == [op |-> "none", id |-> NoId, status |-> Undef, res |-> NoRes,
           query |-> <<>>, logs |-> <<>>, total |-> 0]
Last(op, id, status) ==
    [op |-> op, id |-> id, status |-> status, res |-> NoRes,
     query |-> <<>>, logs |-> <<>>, total |-> 0]

\* the users of the User collection and the role each was registered with
UserIds == 1..4
UsuariosIniciales ==
    [u \in UserIds |-> CASE u = 3 -> "paciente" [] u = 4 -> "admin" [] OTHER -> "doctor"]

NoReq == [pc |-> "idle", user |-> [id |-> 1, role |-> "doctor"], id |-> NoId,
          body |-> [numeroSerie |-> "NS1", emisor |-> "SAT", inicio |-> 0, fin |-> MaxNow],
          exp |-> NoExp, firma |-> NoId, res |-> Undef]

Init ==
    /\ expedientes = [e \in ExpIds |-> NoExp]
    /\ firmas = <<>>
    /\ auditLog = <<>>
    /\ reqs = [p \in Procs |-> NoReq]
    /\ now = 0
    /\ last = NoLast
    /\ usuarios = UsuariosIniciales

\* ===================================================== expedienteController
PacienteExiste(id) ==
    id = 1

\* exports.createExpediente (the PDF file is not part of the state): the
\* document is created, then documento is assigned with the hash it has and
\* the document is saved again
CreateExpediente(user, e, body) ==
    /\ ~expedientes[e].existe
    /\ \A d \in ExpIds : d < e => expedientes[d].existe
    /\ LET doc == ExpedienteNew(CreateDatos(body, user))
           err == IF user.role # "doctor" THEN "Solo doctores pueden crear expedientes"
                  ELSE IF ~PacienteExiste(body.paciente) THEN "No se encontró el paciente"
                  ELSE IF ~ExpedienteValidate(doc) THEN "ValidationError"
                  ELSE Undef
       IN  IF err # Undef
           THEN /\ auditLog' = logError(auditLog, err, user, now)
                /\ UNCHANGED expedientes
           ELSE /\ expedientes' = [expedientes EXCEPT
                                     ![e] = PreSave(PreSave(doc, TRUE), FALSE)]
                /\ auditLog' = registrarAuditoria(auditLog, user, "crear", e, TRUE,
                                                  "Expediente creado exitosamente", now)
    /\ UNCHANGED <<firmas, reqs, now, last>>
    /\ UNCHANGED usuarios

\* exports.getExpediente with expedienteSchema.methods.registrarAcceso
GetExpediente(user, e) ==
    /\ LET doc == expedientes[e]
           err == IF ~doc.existe THEN "No se encontró el expediente"
                  ELSE IF user.role = "paciente" /\ doc.paciente # 1
                       THEN "No tiene permiso para ver este expediente"
                  ELSE Undef
       IN  IF err # Undef
           THEN /\ auditLog' = logError(auditLog, err, user, now)
                /\ UNCHANGED expedientes
           ELSE /\ doc.accesos < MaxAccesos
                /\ expedientes' = [expedientes EXCEPT
                                     ![e] = PreSave([doc EXCEPT !.accesos = @ + 1], FALSE)]
                /\ auditLog' = registrarAuditoria(auditLog, user, "consultar", e, TRUE,
                                                  "Consulta de expediente exitosa", now)
    /\ UNCHANGED <<firmas, reqs, now, last>>
    /\ UNCHANGED usuarios

\* a write to the stored contenido that does not go through save(): the
\* alteration verificarIntegridad exists to detect
Alterar(e, c) ==
    /\ expedientes[e].existe
    /\ expedientes[e].contenido # c
    /\ expedientes' = [expedientes EXCEPT ![e].contenido = c]
    /\ UNCHANGED <<firmas, auditLog, reqs, now, last>>
    /\ UNCHANGED usuarios

SinPermisoDescargar == "No tiene permiso para descargar este expediente"
DocumentoAlterado == "El documento ha sido alterado"

\* exports.downloadPDF: findById, the paciente check, verificarIntegridad,
\* the audit record, res.download
DownloadPDF(user, e) ==
    /\ LET doc == expedientes[e]
           err == IF ~doc.existe THEN "No se encontró el expediente"
                  ELSE IF user.role = "paciente" /\ doc.paciente # 1
                       THEN SinPermisoDescargar
                  ELSE IF ~verificarIntegridad(doc) THEN DocumentoAlterado
                  ELSE Undef
       IN  IF err # Undef
           THEN /\ auditLog' = logError(auditLog, err, user, now)
                /\ last' = Last("downloadPDF", e, err)
           ELSE /\ auditLog' = registrarAuditoria(auditLog, user, "descargar", e, TRUE,
                                                  "Descarga de expediente exitosa", now)
                /\ last' = Last("downloadPDF", e, "ok")
    /\ UNCHANGED <<expedientes, firmas, reqs, now, usuarios>>

FallaEnmascarada(p, err) ==
    /\ auditLog' = logError(auditLog, err, reqs[p].user, now)
    /\ reqs' = [reqs EXCEPT ![p].pc = "done",
                            ![p].res = IF logError(auditLog, err, reqs[p].user, now) = auditLog
                                       THEN "Error al registrar auditoría"
                                       ELSE err]
    /\ UNCHANGED <<expedientes, firmas>>

\* errorHandler: logError, then the error response
Falla(p, err) ==
    /\ auditLog' = logError(auditLog, err, reqs[p].user, now)
    /\ reqs' = [reqs EXCEPT ![p].pc = "done", ![p].res = err]
    /\ UNCHANGED <<expedientes, firmas>>

FirmarExpedienteSinRol(p, user, e, body) ==
    /\ reqs[p].pc = "idle"
    /\ reqs' = [reqs EXCEPT ![p] = [NoReq EXCEPT
                  !.pc = "find", !.user = user, !.id = e, !.body = body]]
    /\ UNCHANGED <<expedientes, firmas, auditLog, now, last, usuarios>>

\* exports.firmarExpediente, entry: the role check, then findById is awaited
FirmarExpediente(p, user, e, body) ==
    /\ reqs[p].pc = "idle"
    /\ IF user.role # "doctor"
       THEN /\ auditLog' = logError(auditLog, "Solo doctores pueden firmar expedientes",
                                    user, now)
            /\ reqs' = [reqs EXCEPT ![p] = [NoReq EXCEPT
                          !.pc = "done", !.user = user, !.id = e, !.body = body,
                          !.res = "Solo doctores pueden firmar expedientes"]]
       ELSE /\ reqs' = [reqs EXCEPT ![p] = [NoReq EXCEPT
                          !.pc = "find", !.user = user, !.id = e, !.body = body]]
            /\ UNCHANGED auditLog
    /\ UNCHANGED <<expedientes, firmas, now, last>>
    /\ UNCHANGED usuarios

\* exports.firmarExpediente, one step between two awaits
FirmarStep(p) ==
    /\ reqs[p].pc \in {"find", "create", "save", "audit"}
    /\ LET r == reqs[p]
       IN CASE r.pc = "find" ->
                 \* findById resolved; the two guards; Firma.create is called
                 \* (the handler never reads the loaded historialAccesos)
                 LET doc == expedientes[r.id]
                 IN  IF ~doc.existe THEN Falla(p, "No se encontró el expediente")
                     ELSE IF doc.estado = "firmado"
                          THEN Falla(p, "El expediente ya está firmado")
                     ELSE /\ reqs' = [reqs EXCEPT ![p].pc = "create",
                                                  ![p].exp = [doc EXCEPT !.accesos = 0]]
                          /\ UNCHANGED <<expedientes, firmas, auditLog>>
            [] r.pc = "create" ->
                 \* Firma.create validates and inserts; then firmaDigital and
                 \* estado are set on the loaded document and save() is called
                 LET f == FirmaNew(FirmarDatos(r.id, r.user, r.body))
                 IN  IF ~FirmaValidate(f) THEN Falla(p, "ValidationError")
                     ELSE /\ firmas' = Append(firmas, f)
                          /\ reqs' = [reqs EXCEPT
                                ![p].pc = "save",
                                ![p].firma = Len(firmas) + 1,
                                ![p].exp = [r.exp EXCEPT !.estado = "firmado",
                                                         !.firmante = r.user.id,
                                                         !.fechaFirma = now,
                                                         !.sello = f.selloDigital]]
                          /\ UNCHANGED <<expedientes, auditLog>>
            [] r.pc = "save" ->
                 \* expediente.save(): the modified paths estado and firmaDigital
                 \* are written; contenido is not modified, the hash is kept
                 /\ expedientes' = [expedientes EXCEPT
                       ![r.id] = PreSave([@ EXCEPT !.estado = r.exp.estado,
                                                   !.firmante = r.exp.firmante,
                                                   !.fechaFirma = r.exp.fechaFirma,
                                                   !.sello = r.exp.sello], FALSE)]
                 /\ reqs' = [reqs EXCEPT ![p].pc = "audit"]
                 /\ UNCHANGED <<firmas, auditLog>>
            [] r.pc = "audit" ->
                 \* PDF regenerated, then registrarAuditoria and the 200 response
                 /\ auditLog' = registrarAuditoria(auditLog, r.user, "firmar", r.id, TRUE,
                                                   "Expediente firmado exitosamente", now)
                 /\ reqs' = [reqs EXCEPT ![p].pc = "done", ![p].res = "ok"]
                 /\ UNCHANGED <<expedientes, firmas>>
    /\ UNCHANGED <<now, last>>
    /\ UNCHANGED usuarios

\* ================================================== Firma model operations
\* Firma.create(datos)
CrearFirma(datos) ==
    /\ Len(firmas) < MaxFirmas
    /\ LET f == FirmaNew(datos)
       IN  IF FirmaValidate(f)
           THEN /\ firmas' = Append(firmas, f)
                /\ last' = Last("Firma.create", Len(firmas) + 1, "ok")
           ELSE /\ UNCHANGED firmas
                /\ last' = Last("Firma.create", NoId, "ValidationError")
    /\ UNCHANGED <<expedientes, auditLog, reqs, now>>
    /\ UNCHANGED usuarios

\* firma.revocar(usuario, motivo): assign, save, then the audit record
Revocar(i, usuario, motivo) ==
    /\ i \in 1..Len(firmas)
    /\ firmas' = [firmas EXCEPT ![i] = revocar(firmas[i], usuario, motivo, now)]
    /\ auditLog' = revocarAuditoria(auditLog, i, firmas[i], usuario, motivo, now)
    /\ last' = Last("revocar", i, "ok")
    /\ UNCHANGED <<expedientes, reqs, now>>
    /\ UNCHANGED usuarios

\* firma.verificarFirma()
VerificarFirma(i) ==
    /\ i \in 1..Len(firmas)
    /\ last' = [Last("verificarFirma", i, "ok") EXCEPT !.res = verificarFirma(firmas[i], now)]
    /\ firmas' = [firmas EXCEPT ![i] = verificarFirmaThis(firmas[i], now)]
    /\ UNCHANGED <<expedientes, auditLog, reqs, now>>
    /\ UNCHANGED usuarios

\* expediente.firmaDigital of a loaded document: firmaDigital is a nested path
\* of the schema, so the getter returns an object whether or not the record
\* was signed
TieneFirmaDigital(doc) ==
    doc.existe

\* Firma.findOne({ expedienteId: id }): the schema has no path expedienteId.
\* With strictQuery off the filter matches no document and the answer is null;
\* with strictQuery on the filter is emptied and the answer is the first
\* document of the collection. Which of the two depends on the Mongoose build.
FindOneExpedienteId(fs, id) ==
    {NoId} \cup (IF Len(fs) > 0 THEN {1} ELSE {})

\* exports.verificarFirma (GET /:id/verificar-firma)
GetVerificarFirma(user, e) ==
    /\ LET doc == expedientes[e]
       IN  IF ~doc.existe
           THEN /\ auditLog' = logError(auditLog, "No se encontró el expediente", user, now)
                /\ last' = Last("GET verificar-firma", e, "No se encontró el expediente")
                /\ UNCHANGED firmas
           ELSE IF ~TieneFirmaDigital(doc)
           THEN /\ auditLog' = logError(auditLog, "El expediente no está firmado", user, now)
                /\ last' = Last("GET verificar-firma", e, "El expediente no está firmado")
                /\ UNCHANGED firmas
           ELSE \E j \in FindOneExpedienteId(firmas, e) :
                  IF j = NoId
                  THEN \* firma is null: firma.verificarFirma() throws a TypeError,
                       \* catchAsync hands it to errorHandler
                       /\ auditLog' = logError(auditLog, "TypeError", user, now)
                       /\ last' = Last("GET verificar-firma", e, "TypeError")
                       /\ UNCHANGED firmas
                  ELSE LET resultado == verificarFirma(firmas[j], now)
                       IN  /\ firmas' = [firmas EXCEPT
                                           ![j] = verificarFirmaThis(firmas[j], now)]
                           /\ auditLog' = registrarAuditoria(auditLog, user,
                                              "verificar_firma", e, resultado.valida,
                                              resultado.mensaje, now)
                           /\ last' = [Last("GET verificar-firma", e, "ok")
                                         EXCEPT !.res = resultado]
    /\ UNCHANGED <<expedientes, reqs, now>>
    /\ UNCHANGED usuarios

\* =============================================== AuditLog model operations
\* AuditLog.registrar(datos); last.id is the number of documents the insert
\* pushed out of the capped collection
Registrar(datos) ==
    /\ auditLog' = registrar(auditLog, datos, now)
    /\ last' = IF AuditAcepta(AuditNew(datos, now))
               THEN Last("registrar", (Len(auditLog) + 1) - Len(auditLog'), "ok")
               ELSE Last("registrar", NoId, "null")
    /\ UNCHANGED <<expedientes, firmas, reqs, now>>
    /\ UNCHANGED usuarios

\* a stored document is loaded, resultado.exitoso is assigned, save() is
\* called: pre('save') runs with isNew false
GuardarExistente(k, exitoso) ==
    /\ k \in 1..Len(auditLog)
    /\ IF AuditPreSave(FALSE) # Undef
       THEN /\ UNCHANGED auditLog
            /\ last' = Last("save", k, AuditPreSave(FALSE))
       ELSE /\ auditLog' = [auditLog EXCEPT ![k].exitoso = exitoso]
            /\ last' = Last("save", k, "ok")
    /\ UNCHANGED <<expedientes, firmas, reqs, now>>
    /\ UNCHANGED usuarios

\* AuditLog.updateOne({_id}, {$set: {'resultado.exitoso': exitoso}}): a query
\* of the model; the schema registers middleware for 'save' only, so none runs
ActualizarDirecto(k, exitoso) ==
    /\ k \in 1..Len(auditLog)
    /\ auditLog' = [auditLog EXCEPT ![k].exitoso = exitoso]
    /\ last' = Last("updateOne", k, "ok")
    /\ UNCHANGED <<expedientes, firmas, reqs, now>>
    /\ UNCHANGED usuarios

\* ========================================================= auditController
LimitePagina == 50
DiasEstadisticas == 30

\* getAuditLogs, 'Construir filtros': the filter object built from req.query
\* (a parameter counts when it is truthy; exitoso when it is defined, and it
\* is true only for the string 'true')
FiltrosDe(q) ==
    [k \in {c \in DOMAIN q : c \in {"usuario", "rolUsuario", "accion", "entidadTipo",
                                     "entidadId", "exitoso", "fechaInicio", "fechaFin"}}
        |-> IF k = "exitoso" THEN q.exitoso = "true" ELSE q[k]]

\* exportAuditLogs, 'Construir filtros': only the date range is taken
FiltrosExport(q) ==
    [k \in {c \in DOMAIN q : c \in {"fechaInicio", "fechaFin"}} |-> q[k]]

MatchSinExitoso(doc, filtros) ==
    /\ Has(filtros, "usuario") => doc.usuario = filtros.usuario
    /\ Has(filtros, "rolUsuario") => doc.rolUsuario = filtros.rolUsuario
    /\ Has(filtros, "accion") => doc.accion = filtros.accion
    /\ Has(filtros, "entidadTipo") => doc.entTipo = filtros.entidadTipo
    /\ Has(filtros, "entidadId") => doc.entId = filtros.entidadId
    /\ Has(filtros, "fechaInicio") => doc.timestamp >= filtros.fechaInicio
    /\ Has(filtros, "fechaFin") => doc.timestamp <= filtros.fechaFin

MatchRolActual(doc, filtros) ==
    /\ Has(filtros, "usuario") => doc.usuario = filtros.usuario
    /\ Has(filtros, "rolUsuario") => usuarios[doc.usuario] = filtros.rolUsuario
    /\ Has(filtros, "accion") => doc.accion = filtros.accion
    /\ Has(filtros, "entidadTipo") => doc.entTipo = filtros.entidadTipo
    /\ Has(filtros, "entidadId") => doc.entId = filtros.entidadId
    /\ Has(filtros, "exitoso") => doc.exitoso = filtros.exitoso
    /\ Has(filtros, "fechaInicio") => doc.timestamp >= filtros.fechaInicio
    /\ Has(filtros, "fechaFin") => doc.timestamp <= filtros.fechaFin

\* AuditLog.find(filtros) / countDocuments(filtros): a stored document matches
\* when every key of the filter object matches its stored path
Match(doc, filtros) ==
    /\ Has(filtros, "usuario") => doc.usuario = filtros.usuario
    /\ Has(filtros, "rolUsuario") => doc.rolUsuario = filtros.rolUsuario
    /\ Has(filtros, "accion") => doc.accion = filtros.accion
    /\ Has(filtros, "entidadTipo") => doc.entTipo = filtros.entidadTipo
    /\ Has(filtros, "entidadId") => doc.entId = filtros.entidadId
    /\ Has(filtros, "exitoso") => doc.exitoso = filtros.exitoso
    /\ Has(filtros, "fechaInicio") => doc.timestamp >= filtros.fechaInicio
    /\ Has(filtros, "fechaFin") => doc.timestamp <= filtros.fechaFin

Encontrados(log, filtros) ==
    {k \in 1..Len(log) : Match(log[k], filtros)}

\* .sort('-timestamp') over the documents K of log: every order of their
\* positions with timestamps descending (documents with equal timestamps come
\* in an order the sort does not fix)
SortTimestampDesc(log, K) ==
    {s \in [1..Cardinality(K) -> K] :
        /\ \A a, b \in DOMAIN s : a # b => s[a] # s[b]
        /\ \A a, b \in DOMAIN s : a < b => log[s[a]].timestamp >= log[s[b]].timestamp}

PaginaSinSkip(lista, skip, limit) ==
    SubSeq(lista, 1, IF limit < Len(lista) THEN limit ELSE Len(lista))

\* .skip(skip).limit(limit) over the sorted list
Pagina(lista, skip, limit) ==
    SubSeq(lista, skip + 1,
           IF skip + limit < Len(lista) THEN skip + limit ELSE Len(lista))

\* parseInt(req.query.<k>, 10) || def
ParseIntOr(q, k, def) ==
    IF Has(q, k) /\ q[k] # 0 THEN q[k] ELSE def

\* the datos the three audit handlers hand to AuditLog.registrar
registrarConsultaAuditoria(log, u, accion, mensaje, t) ==
    registrar(log,
              [usuario    |-> u,
               rolUsuario |-> usuarios[u],
               accion     |-> accion,
               entidad    |-> [tipo |-> "AuditLog", id |-> NoId],
               seguridad  |-> [ip |-> "10.0.0.1"],
               resultado  |-> [exitoso |-> TRUE, mensaje |-> mensaje]],
              t)

\* exportAuditLogs, 'Transformar datos para CSV': the row of one document
FilaCSV(doc) ==
    [Fecha            |-> ToString(doc.timestamp),
     Rol              |-> doc.rolUsuario,
     Accion           |-> doc.accion,
     EntidadTipo      |-> doc.entTipo,
     EntidadId        |-> doc.entId,
     ResultadoExitoso |-> IF doc.exitoso THEN "Sí" ELSE "No",
     Mensaje          |-> doc.mensaje,
     IP               |-> doc.ip]

SinPermisoVer == "No tiene permiso para ver registros de auditoría"
SinPermisoExportar == "No tiene permiso para exportar registros de auditoría"
SinPermisoStats == "No tiene permiso para ver estadísticas de auditoría"

\* the 403 of an audit handler, through errorHandler
AuditDenegado(op, u, err) ==
    /\ auditLog' = logError(auditLog, err, [id |-> u, role |-> usuarios[u]], now)
    /\ last' = Last(op, u, err)

\* exports.getAuditLogs: find + sort + skip + limit, countDocuments, the audit
\* record of the query, the response (populate leaves rolUsuario as stored)
GetAuditLogs(u, q) ==
    /\ IF usuarios[u] # "admin" THEN AuditDenegado("getAuditLogs", u, SinPermisoVer)
       ELSE LET filtros == FiltrosDe(q)
                page    == ParseIntOr(q, "page", 1)
                limit   == ParseIntOr(q, "limit", LimitePagina)
                K       == Encontrados(auditLog, filtros)
            IN  \E s \in SortTimestampDesc(auditLog, K) :
                  /\ last' = [Last("getAuditLogs", u, "ok") EXCEPT
                                !.query = q,
                                !.logs = Pagina([i \in DOMAIN s |-> auditLog[s[i]]],
                                                (page - 1) * limit, limit),
                                !.total = Cardinality(K)]
                  /\ auditLog' = registrarConsultaAuditoria(auditLog, u,
                                     "consultar_auditoria",
                                     "Consulta de registros de auditoría exitosa", now)
    /\ UNCHANGED <<expedientes, firmas, reqs, now, usuarios>>

\* exports.exportAuditLogs: find + sort, the CSV rows, the audit record
ExportAuditLogs(u, q) ==
    /\ IF usuarios[u] # "admin"
       THEN AuditDenegado("exportAuditLogs", u, SinPermisoExportar)
       ELSE LET filtros == FiltrosExport(q)
                K       == Encontrados(auditLog, filtros)
            IN  \E s \in SortTimestampDesc(auditLog, K) :
                  /\ last' = [Last("exportAuditLogs", u, "ok") EXCEPT
                                !.query = q,
                                !.logs = [i \in DOMAIN s |-> FilaCSV(auditLog[s[i]])],
                                !.total = Cardinality(K)]
                  /\ auditLog' = registrarConsultaAuditoria(auditLog, u,
                                     "exportar_auditoria",
                                     "Exportación de registros de auditoría exitosa", now)
    /\ UNCHANGED <<expedientes, firmas, reqs, now, usuarios>>

\* exports.getAuditStats: the $match / $group of the last 30 days (stats[0]
\* is undefined when nothing matches), the audit record
GetAuditStats(u) ==
    /\ IF usuarios[u] # "admin" THEN AuditDenegado("getAuditStats", u, SinPermisoStats)
       ELSE LET K == Encontrados(auditLog, [fechaInicio |-> now - DiasEstadisticas,
                                           fechaFin |-> now])
            IN  /\ last' = [Last("getAuditStats", u, "ok") EXCEPT
                              !.logs = IF K = {} THEN <<>>
                                       ELSE <<[totalRegistros |-> Cardinality(K),
                                               accionesExitosas |->
                                                  Cardinality({k \in K : auditLog[k].exitoso}),
                                               accionesFallidas |->
                                                  Cardinality({k \in K : ~auditLog[k].exitoso})]>>,
                              !.total = Cardinality(K)]
                /\ auditLog' = registrarConsultaAuditoria(auditLog, u,
                                   "consultar_estadisticas_auditoria",
                                   "Consulta de estadísticas exitosa", now)
    /\ UNCHANGED <<expedientes, firmas, reqs, now, usuarios>>

\* AuditLog.registrar called for an action of user u, in the shape registrar
\* reads, with the role u holds now
RegistrarAccion(u, a) ==
    /\ Registrar([usuario |-> u, rolUsuario |-> usuarios[u], accion |-> a.accion,
                  entidad |-> [tipo |-> "Usuario", id |-> u], ip |-> "10.0.0.1",
                  exitoso |-> a.exitoso])

\* the role of a user is changed in the User collection
CambiarRol(u, r) ==
    /\ usuarios[u] # r
    /\ usuarios' = [usuarios EXCEPT ![u] = r]
    /\ UNCHANGED <<expedientes, firmas, auditLog, reqs, now, last>>

\* time passes
Tick ==
    /\ now < MaxNow
    /\ now' = now + 1
    /\ UNCHANGED <<expedientes, firmas, auditLog, reqs, last>>
    /\ UNCHANGED usuarios

\* ======================================================== specifications
\* the HTTP handlers of expedienteController over the stored collections
Next ==
    \/ \E u \in Users, e \in ExpIds, b \in CreateBodies : CreateExpediente(u, e, b)
    \/ \E u \in Users, e \in ExpIds : GetExpediente(u, e)
    \/ \E e \in ExpIds, c \in Contenidos : Alterar(e, c)
    \/ \E p \in Procs, u \in Users, e \in ExpIds, b \in SignBodies :
          FirmarExpediente(p, u, e, b)
    \/ \E p \in Procs : FirmarStep(p)

Spec == Init /\ [][Next]_vars

\* the Firma model's own operations over the Firma collection
NextFirma ==
    \/ \E d \in DatosFirma : CrearFirma(d)
    \/ \E i \in 1..MaxFirmas, r \in Revocaciones : Revocar(i, r.usuario, r.motivo)
    \/ \E i \in 1..MaxFirmas : VerificarFirma(i)
    \/ Tick

SpecFirma == Init /\ [][NextFirma]_vars

\* verification, by the model method and by the GET handler, of Signatures
\* of both algoritmos over a database that holds records and Signatures
NextVerificar ==
    \/ \E u \in Users, e \in ExpIds, b \in CreateBodies : CreateExpediente(u, e, b)
    \/ \E d \in DatosVerificar : CrearFirma(d)
    \/ \E i \in 1..MaxFirmas : VerificarFirma(i)
    \/ \E u \in Users, e \in ExpIds : GetVerificarFirma(u, e)
    \/ Tick

SpecVerificar == Init /\ [][NextVerificar]_vars

\* the Firma model's verificarFirma over Signatures of both algoritmos,
\* revoked or not
NextFalla ==
    \/ \E d \in DatosVerificar : CrearFirma(d)
    \/ \E i \in 1..MaxFirmas : Revocar(i, [id |-> 4, role |-> "admin"],
                                       "certificado comprometido")
    \/ \E i \in 1..MaxFirmas : VerificarFirma(i)
    \/ Tick

SpecFalla == Init /\ [][NextFalla]_vars

\* the AuditLog model's own operations over the capped audit collection
NextAudit ==
    \/ \E d \in DatosAudit : Registrar(d)
    \/ \E k \in 1..MaxDocs, v \in BOOLEAN : GuardarExistente(k, v)
    \/ \E k \in 1..MaxDocs, v \in BOOLEAN : ActualizarDirecto(k, v)
    \/ Tick

SpecAudit == Init /\ [][NextAudit]_vars

\* the content hash: records created, read, altered in the database and
\* downloaded
NextHash ==
    \/ \E u \in Users, e \in ExpIds, b \in CreateBodies \cup CuerposMixed :
          CreateExpediente(u, e, b)
    \/ \E u \in Users, e \in ExpIds : GetExpediente(u, e)
    \/ \E e \in ExpIds, c \in Contenidos \cup ContenidosMixed : Alterar(e, c)
    \/ \E u \in Users, e \in ExpIds : DownloadPDF(u, e)
    \/ Tick

SpecHash == Init /\ [][NextHash]_vars

\* the audit routes over an audit collection filled by registrar
NextConsulta ==
    \/ \E a \in AccionesConsulta : RegistrarAccion(1, a)
    \/ \E q \in Consultas : GetAuditLogs(4, q)
    \/ \E q \in ConsultasExport : ExportAuditLogs(4, q)
    \/ \E u \in {1, 4} : GetAuditStats(u)
    \/ Tick

SpecConsulta == Init /\ [][NextConsulta]_vars

\* the audit query by role over records of a user whose role changes
NextRol ==
    \/ \E a \in AccionesConsulta : RegistrarAccion(1, a)
    \/ \E r \in {"doctor", "admin"} : CambiarRol(1, r)
    \/ \E q \in ConsultasRol : GetAuditLogs(4, q)
    \/ Tick

SpecRol == Init /\ [][NextRol]_vars


\* ================================================================ claims
YaFirmado == "El expediente ya está firmado"
NoEncontrado == "No se encontró el expediente"

\* request p has run to its response after loading an unsigned record
\* (both guards of firmarExpediente passed)
FirmoBorrador(p) ==
    /\ reqs[p].pc = "done"
    /\ reqs[p].user.role = "doctor"
    /\ reqs[p].exp.existe

\* request p has run to its response on an existing record
Atendida(p) ==
    /\ reqs[p].pc = "done"
    /\ reqs[p].user.role = "doctor"
    /\ reqs[p].res # NoEncontrado

\* the record a stored Firma was made for: its expediente path, or the record
\* of the sign request that inserted it
FirmaDe(i, e) ==
    \/ firmas[i].expediente = e
    \/ \E p \in Procs : reqs[p].firma = i /\ reqs[p].id = e

\* C1: of two sign requests run to completion on the same draft record exactly
\* one answers success and the other answers 'already signed'.
C1_ExactlyOneSigns ==
    \A p, q \in Procs :
        (p # q /\ Atendida(p) /\ Atendida(q) /\ reqs[p].id = reqs[q].id)
            => {reqs[p].res, reqs[q].res} = {"ok", YaFirmado}

C3_SignSucceeds ==
    \A p \in Procs :
        (FirmoBorrador(p) /\ reqs[p].body.inicio <= now /\ now <= reqs[p].body.fin)
            => /\ reqs[p].res = "ok"
               /\ expedientes[reqs[p].id].estado = "firmado"
               /\ reqs[p].firma \in 1..Len(firmas)
               /\ firmas[reqs[p].firma].estado = "valida"

\* C4: a sign request that loaded a record whose stored hash is not the hash of
\* its contenido is answered with the content-hash mismatch error, creates no
\* Signature, leaves the record unsigned and, being the only request served so
\* far, leaves exactly one audit record, with exitoso = false.
C4_HashMismatchRejected ==
    \A p \in Procs :
        (FirmoBorrador(p) /\ ~verificarIntegridad(reqs[p].exp))
            => /\ reqs[p].res = DocumentoAlterado
               /\ reqs[p].firma = NoId
               /\ expedientes[reqs[p].id].estado # "firmado"
               /\ (\A q \in Procs \ {p} : reqs[q].pc = "idle")
                     => (Len(auditLog) = 1 /\ ~auditLog[1].exitoso)

\* C6: a record is 'firmado' only when a sign request for it has created a
\* Signature and saved the record; no other operation stores that estado.
C6_FirmadoOnlyBySign ==
    \A e \in ExpIds :
        expedientes[e].estado = "firmado"
            => \E p \in Procs :
                  /\ reqs[p].id = e
                  /\ reqs[p].pc \in {"audit", "done"}
                  /\ reqs[p].firma \in 1..Len(firmas)

\* C6 witness: the record created from the body that asked for estado
\* 'firmado' (the one with contenido c2, whose hash it carries) is stored as
\* 'borrador', has been read, and a sign request on it was answered.
C6_Witness ==
    \E e \in ExpIds :
        /\ expedientes[e].existe
        /\ expedientes[e].estado = "borrador"
        /\ expedientes[e].hash = Sha256Hex(JSONStringify("c2"))
        /\ expedientes[e].accesos > 0
        /\ \E p \in Procs : FirmoBorrador(p) /\ reqs[p].id = e

\* C7: revocar on a Signature that is already 'revocada' fails with
\* AlreadyRevoked and leaves the Signature, its revocacion included, unchanged.
C7_RevokeRevokedFails ==
    [][\A i \in 1..MaxFirmas, r \in Revocaciones :
          (i <= Len(firmas) /\ firmas[i].estado = "revocada"
             /\ Revocar(i, r.usuario, r.motivo))
              => (firmas' = firmas /\ last'.status = "AlreadyRevoked")]_vars

\* C8: the stored estado of a Signature only goes none -> valida -> revocada:
\* a new Signature is stored 'valida', a 'revocada' one stays 'revocada', and
\* 'expirada' is never stored.
C8_EstadoTransitions ==
    [][\A i \in 1..Len(firmas') :
          /\ firmas'[i].estado # "expirada"
          /\ IF i <= Len(firmas)
             THEN \/ firmas'[i].estado = firmas[i].estado
                  \/ firmas[i].estado = "valida" /\ firmas'[i].estado = "revocada"
             ELSE firmas'[i].estado = "valida"]_vars

\* C8 witness: past the end of its certificate window one Signature is stored
\* 'revocada' and another, just verified as expired, is still stored 'valida'.
C8_Witness ==
    \E i, j \in 1..Len(firmas) :
        /\ firmas[i].estado = "revocada" /\ now > firmas[i].fin
        /\ firmas[j].estado = "valida" /\ now > firmas[j].fin
        /\ last.op = "verificarFirma" /\ last.id = j
        /\ last.res = ResExpirado

\* the paths of a Signature other than estado and revocacion
Inmutable(f) ==
    [f EXCEPT !.estado = "valida", !.revocacion = NoRevocacion]

\* C9: no operation removes a Signature or changes its certificate, signature
\* block, signer or record reference; only estado and revocacion change.
C9_FirmaImmutable ==
    [][/\ Len(firmas') >= Len(firmas)
       /\ \A i \in 1..Len(firmas) : Inmutable(firmas'[i]) = Inmutable(firmas[i])]_vars

\* C9 witness: a Signature has been revoked and then verified.
C9_Witness ==
    \E i \in 1..Len(firmas) :
        /\ firmas[i].estado = "revocada"
        /\ firmas[i].revocacion.motivo \in Motivos
        /\ last.op = "verificarFirma" /\ last.id = i

\* C10: whenever now is outside the certificate window verificarFirma answers
\* valida = false with the expired-certificate message, whatever the estado
\* and whatever the sello.
C10_WindowFirst ==
    [][\A i \in 1..MaxFirmas :
          (VerificarFirma(i) /\ (now < firmas[i].inicio \/ now > firmas[i].fin))
              => (~last'.res.valida
                  /\ last'.res.mensaje = "El certificado ha expirado")]_vars

\* C10 witness: a revoked Signature with a sello that does not verify has been
\* verified outside its window and the answer was the expired certificate.
C10_Witness ==
    \E i \in 1..Len(firmas) :
        /\ firmas[i].estado = "revocada"
        /\ firmas[i].selloDigital = "sello_X"
        /\ (now < firmas[i].inicio \/ now > firmas[i].fin)
        /\ last.op = "verificarFirma" /\ last.id = i
        /\ last.res = ResExpirado

\* C11: verificarFirma on a Signature stored 'revocada' never answers
\* valida = true, and when now is inside the certificate window it answers the
\* revoked message carrying the stored revocacion, whatever the algoritmo and
\* the sello (the cryptographic step is not reached).
C11_RevokedShortCircuit ==
    [][\A i \in 1..MaxFirmas :
          (VerificarFirma(i) /\ firmas[i].estado = "revocada")
              => /\ ~last'.res.valida
                 /\ (firmas[i].inicio <= now /\ now <= firmas[i].fin)
                       => /\ last'.res.mensaje = "La firma ha sido revocada"
                          /\ last'.res.detalles = firmas[i].revocacion
                          /\ last'.res.detalles.motivo \in Motivos]_vars

\* C11 witness: a Signature whose sello verifies has been revoked and then
\* verified inside its window; the answer was the revocation with its detail.
C11_Witness ==
    \E i \in 1..Len(firmas) :
        /\ firmas[i].estado = "revocada"
        /\ firmas[i].selloDigital = "sello_A1"
        /\ firmas[i].inicio <= now /\ now <= firmas[i].fin
        /\ last.op = "verificarFirma" /\ last.id = i
        /\ last.res = ResRevocada(firmas[i])
        /\ last.res.detalles.motivo \in Motivos

\* C13: verificarFirma changes nothing that is stored, whatever it answers:
\* the Signature (estado, revocacion and certificate included), the other
\* Signatures, the records and the audit collection are as they were.
C13_VerifyPureRead ==
    [][\A i \in 1..MaxFirmas :
          VerificarFirma(i)
              => /\ firmas' = firmas
                 /\ expedientes' = expedientes
                 /\ auditLog' = auditLog]_vars

\* C13 witness: past the end of its window a Signature with a sello that does
\* not verify was verified, the answer was the expired certificate, and the
\* Signature is still stored 'valida' with no revocacion.
C13_Witness ==
    \E i \in 1..Len(firmas) :
        /\ now > firmas[i].fin
        /\ firmas[i].selloDigital = "sello_X"
        /\ last.op = "verificarFirma" /\ last.id = i
        /\ last.res.mensaje = "El certificado ha expirado"
        /\ firmas[i].estado = "valida"
        /\ firmas[i].revocacion = NoRevocacion

\* C12: in the cryptographic step (now inside the window, estado not
\* 'revocada') a Signature whose algoritmo is one of the two supported tags is
\* never answered as an unsupported-algorithm error: when its sello does not
\* verify the answer is the mismatch ('Firma inválida').
C12_CryptoFailuresDistinguished ==
    [][\A i \in 1..MaxFirmas :
          (/\ VerificarFirma(i)
           /\ firmas[i].inicio <= now /\ now <= firmas[i].fin
           /\ firmas[i].estado # "revocada"
           /\ firmas[i].algoritmo \in Algoritmos
           /\ ~CryptoVerify(firmas[i].cadenaOriginal, firmas[i].certificadoPublico,
                            firmas[i].selloDigital))
              => last'.res.mensaje = "Firma inválida"]_vars

\* C15: once a verify request has been answered the audit collection holds a
\* record of it, with exitoso = true exactly when the answer was a valid
\* signature and exitoso = false for every failure (record not found, no
\* Signature found, result not valid).
C15_VerifyAudited ==
    last.op = "GET verificar-firma"
        => \E k \in 1..Len(auditLog) :
              /\ auditLog[k].tieneExito
              /\ auditLog[k].exitoso = (last.status = "ok" /\ last.res.valida)

\* C14: every sign request that has been answered has its record in the audit
\* collection: a record by the requesting user whose exitoso tells whether the
\* request succeeded (the claim asks for exactly one; this asks for one).
C14_SignAudited ==
    \A p \in Procs :
        reqs[p].pc = "done"
            => \E k \in 1..Len(auditLog) :
                  /\ auditLog[k].usuario = reqs[p].user.id
                  /\ auditLog[k].exitoso = (reqs[p].res = "ok")

SoloDoctores == "Solo doctores pueden firmar expedientes"

\* C16: the answer of a sign request is the outcome of the operation itself,
\* whatever became of its audit append: the role error for a non-doctor, not
\* found or already signed when a guard stopped it, the validation error or
\* success after the guards -- never an error of the audit append.
C16_AuditFailureContained ==
    \A p \in Procs :
        reqs[p].pc = "done"
            => IF reqs[p].user.role # "doctor" THEN reqs[p].res = SoloDoctores
               ELSE IF reqs[p].exp.existe THEN reqs[p].res \in {"ValidationError", "ok"}
               ELSE reqs[p].res \in {NoEncontrado, YaFirmado}

\* C16 witness: a doctor's sign request for a record that does not exist went
\* through errorHandler, whose audit append stored nothing, and the request
\* was answered with the not-found error.
C16_Witness ==
    \E p \in Procs :
        /\ reqs[p].pc = "done"
        /\ reqs[p].user.role = "doctor"
        /\ reqs[p].res = NoEncontrado
        /\ logError(auditLog, NoEncontrado, reqs[p].user, now) = auditLog
        /\ auditLog = <<>>

\* C17: save() on an AuditLog document that is already stored fails with the
\* immutability error and leaves the collection as it was.
C17_SaveExistingRejected ==
    [][\A k \in 1..MaxDocs, v \in BOOLEAN :
          GuardarExistente(k, v)
              => /\ auditLog' = auditLog
                 /\ last'.status = ErrInmutable]_vars

\* C17 witness: a stored record with exitoso false was loaded, save() was
\* called on it and rejected, and the record is still there.
C17_Witness ==
    /\ last.op = "save"
    /\ last.status = ErrInmutable
    /\ last.id \in 1..Len(auditLog)
    /\ ~auditLog[last.id].exitoso

\* what an insert does to the capped collection: j - 1 oldest documents go,
\* the others keep their place in order and their values, doc goes last
Desplaza(antes, despues, j, doc) ==
    despues = Append(SubSeq(antes, j, Len(antes)), doc)

\* C18: in every step each stored audit record either stays as it is, field
\* for field, or leaves the collection as one of the oldest records pushed out
\* by an insert; nothing else changes the collection.
C18_AuditRecordsImmutable ==
    [][\/ auditLog' = auditLog
       \/ \E j \in 1..(Len(auditLog) + 1) :
             Desplaza(auditLog, auditLog', j, auditLog'[Len(auditLog')])]_vars

\* C19: once createExpediente has stored a record -- its audit append has then
\* been made -- AuditLog.buscar with the filters of that append (accion
\* 'crear', entidad Expediente, the record's id) answers a list that holds the
\* appended record with the actor, role, ip and outcome the handler supplied.
C19_AppendVisible ==
    \A e \in ExpIds :
        expedientes[e].existe
            => \A s \in buscar(auditLog, [accion |-> "crear",
                                          entidadTipo |-> "Expediente",
                                          entidadId |-> e]) :
                  \E n \in 1..Len(s) :
                      /\ s[n].usuario = expedientes[e].createdBy
                      /\ s[n].rolUsuario = "doctor"
                      /\ s[n].ip = "10.0.0.1"
                      /\ s[n].exitoso
                      /\ s[n].mensaje = "Expediente creado exitosamente"

\* C20 as stated: the collection never holds more than its ceiling of
\* documents, and an append made when it holds exactly that many removes the
\* oldest document and no other, the new document going last.
C20_EvictsExactlyOldest ==
    [][/\ Len(auditLog') <= TechoDocs
       /\ \A d \in DatosAudit :
             (/\ Registrar(d)
              /\ AuditAcepta(AuditNew(d, now))
              /\ Len(auditLog) = TechoDocs)
                 => Desplaza(auditLog, auditLog', 2, AuditNew(d, now))]_vars

\* C20 amended: the collection never exceeds its ceiling of documents nor its
\* ceiling of size; an append removes oldest documents only, in insertion
\* order and no more than needed to be within both ceilings -- at least the
\* oldest when the collection held its ceiling of documents, more than one
\* when size requires it -- and every query that matches the new document
\* answers it.
C20_BoundedOldestFirst ==
    [][/\ Len(auditLog') <= TechoDocs
       /\ Bytes(auditLog') <= TechoBytes
       /\ \A d \in DatosAudit :
             (Registrar(d) /\ AuditAcepta(AuditNew(d, now)))
                 => LET doc == AuditNew(d, now)
                    IN  /\ \E j \in 1..(Len(auditLog) + 1) :
                              /\ Desplaza(auditLog, auditLog', j, doc)
                              /\ Len(auditLog) = TechoDocs => j >= 2
                              /\ j > 1 => ~Cabe(Append(SubSeq(auditLog, j - 1,
                                                              Len(auditLog)), doc))
                        /\ \A s \in buscar(auditLog', [accion |-> doc.accion,
                                                         exitoso |-> doc.exitoso]) :
                              \E n \in 1..Len(s) : s[n] = doc]_vars

\* C20 witness: the collection holds its ceiling of documents and the last
\* append, which stored the newest of them, pushed out exactly one.
C20_Witness ==
    /\ Len(auditLog) = TechoDocs
    /\ last.op = "registrar" /\ last.status = "ok"
    /\ last.id = 1
    /\ auditLog[Len(auditLog)].timestamp = now


\* what the parameters of a query q ask of a stored record: the actor, the
\* role, the action, the subject, the success flag ('true' / 'false') and the
\* two ends of the window
Cumple(doc, q) ==
    /\ Has(q, "usuario") => doc.usuario = q.usuario
    /\ Has(q, "rolUsuario") => doc.rolUsuario = q.rolUsuario
    /\ Has(q, "accion") => doc.accion = q.accion
    /\ Has(q, "entidadTipo") => doc.entTipo = q.entidadTipo
    /\ Has(q, "entidadId") => doc.entId = q.entidadId
    /\ Has(q, "exitoso") => (doc.exitoso <=> q.exitoso = "true")
    /\ Has(q, "fechaInicio") => doc.timestamp >= q.fechaInicio
    /\ Has(q, "fechaFin") => doc.timestamp <= q.fechaFin
ExitosoBooleano(q) ==
    Has(q, "exitoso") => q.exitoso \in {"true", "false"}
PaginaDe(q) == ParseIntOr(q, "page", 1)
LimiteDe(q) == ParseIntOr(q, "limit", LimitePagina)

C22_NewestFirstPaginated ==
    [][last'.op = "getAuditLogs" /\ last'.status = "ok" =>
          \A q \in {last'.query} :
          \A K \in {Encontrados(auditLog, FiltrosDe(q))} :
          \A p \in {PaginaDe(q)}, l \in {LimiteDe(q)} :
          \A resto \in {Cardinality(K) - (p - 1) * l} :
          \A n \in {IF resto < 0 THEN 0 ELSE IF resto < l THEN resto ELSE l} :
             /\ last'.total = Cardinality(K)
             /\ Len(last'.logs) = n
             /\ \E s \in SortTimestampDesc(auditLog, K) :
                   \A i \in 1..n : last'.logs[i] = auditLog[s[(p - 1) * l + i]]]_vars
\* page 2 with limit 1 was served over two matching records of different
\* timestamps and returned the older one, with total 2
C22_Witness ==
    /\ last.op = "getAuditLogs" /\ last.status = "ok"
    /\ PaginaDe(last.query) = 2 /\ LimiteDe(last.query) = 1
    /\ last.total = 2
    /\ Len(last.logs) = 1
    /\ \E k \in 1..Len(auditLog) : auditLog[k].timestamp > last.logs[1].timestamp


\* C23: the rows of an export are the rows of exactly the records the audit
\* query matches for the same filter parameters, newest first
C23_ExportSameSet ==
    [][last'.op = "exportAuditLogs" /\ last'.status = "ok" =>
          \A q \in {last'.query} :
          \A K \in {Encontrados(auditLog, FiltrosDe(q))} :
             /\ Len(last'.logs) = Cardinality(K)
             /\ \E s \in SortTimestampDesc(auditLog, K) :
                   \A i \in 1..Cardinality(K) :
                      last'.logs[i] = FilaCSV(auditLog[s[i]])]_vars

\* C24: an audit query, export or statistics request that was served leaves
\* in the audit store, as its newest record, one record of subject type
\* AuditLog written at the time of the request
C24_AuditRequestsAudited ==
    [][/\ last'.op \in {"getAuditLogs", "exportAuditLogs", "getAuditStats"}
       /\ last'.status = "ok"
       /\ last' # last
       => /\ Len(auditLog') > 0
          /\ auditLog'[Len(auditLog')].entTipo = "AuditLog"
          /\ auditLog'[Len(auditLog')].timestamp = now
          /\ Len(auditLog') <= Len(auditLog) + 1]_vars


\* C25: a change of a user's role leaves every stored audit record as it was,
\* rolUsuario included, and an audit query by role returns the stored records
\* whose rolUsuario is the role asked for, whatever role their actor holds now
C25_RoleSnapshot ==
    [][/\ usuarios' # usuarios => auditLog' = auditLog
       /\ last'.op = "getAuditLogs" /\ last'.status = "ok"
             /\ Has(last'.query, "rolUsuario") =>
             /\ \A i \in 1..Len(last'.logs) :
                   last'.logs[i].rolUsuario = last'.query.rolUsuario
             /\ last'.total =
                   Cardinality({k \in 1..Len(auditLog) :
                                   auditLog[k].rolUsuario = last'.query.rolUsuario})
             /\ Len(last'.logs) = last'.total]_vars
\* user 1 acted as doctor, was then made admin, and the query rolUsuario=doctor
\* returned the record of that action
C25_Witness ==
    /\ usuarios[1] = "admin"
    /\ last.op = "getAuditLogs" /\ last.status = "ok"
    /\ Has(last.query, "rolUsuario") /\ last.query.rolUsuario = "doctor"
    /\ Len(last.logs) > 0
    /\ \A i \in 1..Len(last.logs) :
          last.logs[i].usuario = 1 /\ last.logs[i].rolUsuario = "doctor"


\* C26: a record saved with a contenido verifies against the hash bound to
\* it, and once the stored contenido is a different one while the hash is the
\* one bound to the first, verificarIntegridad answers false
C26_HashRoundTripSensitive ==
    [][\A e \in ExpIds :
          /\ ~expedientes[e].existe /\ expedientes'[e].existe =>
                verificarIntegridad(expedientes'[e])
          /\ /\ expedientes[e].existe
             /\ verificarIntegridad(expedientes[e])
             /\ expedientes'[e].hash = expedientes[e].hash
             /\ expedientes'[e].contenido # expedientes[e].contenido
             => ~verificarIntegridad(expedientes'[e])]_vars


\* C27: a record stored by create carries the hash of its contenido, and a
\* step that leaves a stored record's contenido as it was (read-access
\* logging, sign) leaves its hash as it was, so the hash of a record whose
\* contenido was not altered in the database stays the hash of its contenido
C27_HashFollowsContent ==
    [][\A e \in ExpIds :
          /\ ~expedientes[e].existe /\ expedientes'[e].existe =>
                expedientes'[e].hash = Sha256Hex(JSONStringify(expedientes'[e].contenido))
          /\ expedientes[e].existe /\ expedientes'[e].contenido = expedientes[e].contenido =>
                /\ expedientes'[e].hash = expedientes[e].hash
                /\ verificarIntegridad(expedientes[e]) => verificarIntegridad(expedientes'[e])
          /\ expedientes[e].existe => expedientes'[e].existe]_vars
\* a record was created, its read access was logged and a sign request on it
\* ran to its response; its hash is the hash of its contenido
C27_Witness ==
    \E e \in ExpIds :
       /\ expedientes[e].existe
       /\ expedientes[e].accesos > 0
       /\ \E p \in Procs : reqs[p].pc = "done" /\ reqs[p].id = e
                           /\ reqs[p].user.role = "doctor"
       /\ expedientes[e].hash = Sha256Hex(JSONStringify(expedientes[e].contenido))


\* C28: a sign request by a user whose role is not doctor is answered with
\* the rejection at once: it creates no Signature and leaves every record,
\* estado and firmaDigital included, as it was
C28_NonDoctorSignRejected ==
    [][\A p \in Procs :
          reqs'[p] # reqs[p] /\ reqs'[p].user.role # "doctor" =>
             /\ reqs'[p].pc = "done"
             /\ reqs'[p].res \notin {"ok", Undef}
             /\ firmas' = firmas
             /\ expedientes' = expedientes]_vars
\* a paciente asked to sign an existing draft record and was rejected
C28_Witness ==
    \E p \in Procs :
       /\ reqs[p].pc = "done"
       /\ reqs[p].user.role = "paciente"
       /\ reqs[p].res = SoloDoctores
       /\ expedientes[reqs[p].id].existe
       /\ expedientes[reqs[p].id].estado = "borrador"
       /\ Len(firmas) = 0


\* C29: a call of verificarFirma always returns a result, and the result has
\* valida = true only when now is inside the certificate window, the stored
\* estado is not revocada, createVerify knew the digest and verify answered
\* true; when createVerify throws the result has valida = false
C29_VerifyFailsClosed ==
    [][last'.op = "verificarFirma" /\ last' # last =>
          \A f \in {firmas[last'.id]} :
             /\ last'.status = "ok"
             /\ last'.res.valida \in BOOLEAN
             /\ last'.res.valida =>
                   /\ now >= f.inicio /\ now <= f.fin
                   /\ f.estado # "revocada"
                   /\ DigestConocido(f.algoritmo)
                   /\ CryptoVerify(f.cadenaOriginal, f.certificadoPublico, f.selloDigital)
             /\ ~DigestConocido(f.algoritmo) => ~last'.res.valida]_vars
\* a Signature whose sello is genuine, inside its window and not revoked, was
\* verified with an algoritmo createVerify does not know: the answer is the
\* error result with valida = false
C29_Witness ==
    /\ last.op = "verificarFirma"
    /\ last.res = ResError
    /\ \E f \in {firmas[last.id]} :
          /\ ~DigestConocido(f.algoritmo)
          /\ now >= f.inicio /\ now <= f.fin
          /\ f.estado = "valida"
          /\ CryptoVerify(f.cadenaOriginal, f.certificadoPublico, f.selloDigital)

====
